---- MODULE Spec2Model ----
(***************************************************************************)
(* Model of the lexer of picoc089 (src/src/lexer.rs).                      *)
(*                                                                         *)
(* A character is its code point (main.rs reads bytes and maps each byte   *)
(* to a char, so inputs are sequences over 0..255).  A lexeme is a         *)
(* sequence of code points, a token a record [lexeme, category].           *)
(*                                                                         *)
(* scan is recursive: every branch builds one token t and returns          *)
(* once(t).chain(scan(r)).  The state machine unrolls that recursion: cs   *)
(* is the argument of the pending call of scan, tokens the tokens already  *)
(* chained in front of it, and each action is one call of scan.  todo!()   *)
(* unwinds the whole call stack, so the machine stops in pc = "panic".     *)
(***************************************************************************)
EXTENDS Integers, Sequences, FiniteSets, TLC

VARIABLES input, cs, tokens, pc

vars == <<input, cs, tokens, pc>>

(* ------------------------------ bounds --------------------------------- *)

MaxChunks == 3

MaxWs == 2

(* ----------------------- std::char predicates -------------------------- *)

\* char::is_whitespace on 0..255: the Unicode White_Space property:
\* U+0009..U+000D, U+0020, U+0085 (NEL), U+00A0 (NBSP).
is_whitespace(c) == c \in (9..13) \cup {32, 133, 160}

\* char::is_numeric on 0..255: general categories Nd, Nl, No:
\* '0'..'9', U+00B2, U+00B3, U+00B9 (superscripts), U+00BC..U+00BE (fractions).
is_numeric(c) == c \in (48..57) \cup {178, 179, 185} \cup (188..190)

\* char::is_alphabetic on 0..255: the Unicode Alphabetic property:
\* 'A'..'Z', 'a'..'z', U+00AA, U+00B5, U+00BA, U+00C0..U+00D6,
\* U+00D8..U+00F6, U+00F8..U+00FF.
is_alphabetic(c) ==
    c \in (65..90) \cup (97..122) \cup {170, 181, 186}
          \cup (192..214) \cup (216..246) \cup (248..255)

\* The characters a byte can be read as.
Char == 0..255

Numeric == {c \in Char : is_numeric(c)}

Alphabetic == {c \in Char : is_alphabetic(c)}

(* ------------------------------ helpers -------------------------------- *)

SetMin(S) == CHOOSE m \in S : \A k \in S : m <= k

\* Iterator::take_while(p) / skip_while(p) on a Vec<char>, the predicate p
\* given as the set P of the characters that satisfy it: the length of the
\* longest prefix all of whose elements are in P.
RunLen(P, s) ==
    LET stop == {i \in 1..Len(s) : s[i] \notin P}
    IN  IF stop = {} THEN Len(s) ELSE SetMin(stop) - 1

take_while(P, s) == SubSeq(s, 1, RunLen(P, s))

skip_while(P, s) == SubSeq(s, RunLen(P, s) + 1, Len(s))

Token(l, c) == [lexeme |-> l, category |-> c]

(* --------------------------- skip_whitespace --------------------------- *)

RECURSIVE skip_whitespace(_)
skip_whitespace(inp) ==
    IF inp = <<>> THEN <<>>
    ELSE IF is_whitespace(Head(inp)) THEN skip_whitespace(Tail(inp))
         ELSE inp

(* ------------------------------ scan_int ------------------------------- *)

\* Result of one call of a sub-scanner, before the recursive scan(r):
\* either it hits todo!() or it yields the token t and the remainder r.
\* empty = TRUE is the [] => vec![] arm.
scan_int(inp) ==
    LET c == skip_whitespace(inp)
    IN  IF c = <<>> THEN [panic |-> FALSE, empty |-> TRUE, t |-> <<>>, r |-> <<>>]
        ELSE IF Head(c) \in 48..57
             THEN [panic |-> FALSE, empty |-> FALSE,
                   t |-> Token(take_while(Numeric, c), "LiteralInt"),
                   r |-> skip_while(Numeric, c)]
             ELSE [panic |-> TRUE, empty |-> FALSE, t |-> <<>>, r |-> <<>>]

(* ------------------------------ scan_id -------------------------------- *)

\* "int", "main", "return", "void"
STR_int    == <<105, 110, 116>>
STR_main   == <<109, 97, 105, 110>>
STR_return == <<114, 101, 116, 117, 114, 110>>
STR_void   == <<118, 111, 105, 100>>

\* A resolution table that also wires "void" to KeywordVoid.
keyword_void(f) ==
    IF f = STR_int THEN Token(STR_int, "KeywordTypeInt")
    ELSE IF f = STR_main THEN Token(STR_main, "KeywordMain")
    ELSE IF f = STR_return THEN Token(STR_return, "KeywordReturn")
    ELSE IF f = STR_void THEN Token(STR_void, "KeywordVoid")
    ELSE Token(f, "Identifier")

\* let keyword = match f.as_str() {...}; let t = match keyword {...}
keyword(f) ==
    IF f = STR_int THEN Token(STR_int, "KeywordTypeInt")
    ELSE IF f = STR_main THEN Token(STR_main, "KeywordMain")
    ELSE IF f = STR_return THEN Token(STR_return, "KeywordReturn")
    ELSE Token(f, "Identifier")

scan_id(inp) ==
    LET c == skip_whitespace(inp)
    IN  IF c = <<>> THEN [panic |-> FALSE, empty |-> TRUE, t |-> <<>>, r |-> <<>>]
        ELSE IF Head(c) \in 97..122
             THEN [panic |-> FALSE, empty |-> FALSE,
                   t |-> keyword(take_while(Alphabetic, c)),
                   r |-> skip_while(Alphabetic, c)]
             ELSE [panic |-> TRUE, empty |-> FALSE, t |-> <<>>, r |-> <<>>]

(* ----------------------------- dispatcher ------------------------------ *)

\* The nine single-character arms of scan: + - * / ( ) { } ;
SingleChar ==
    (43 :> "Plus") @@ (45 :> "Minus") @@ (42 :> "Star") @@ (47 :> "Slash")
    @@ (40 :> "PuncLeftParen") @@ (41 :> "PuncRightParen")
    @@ (123 :> "PuncLeftBrace") @@ (125 :> "PuncRightBrace")
    @@ (59 :> "PuncSemiColon")

\* The token of the catch-all arm: lexeme "PANIC?", category Plus.
STR_PANIC == <<80, 65, 78, 73, 67, 63>>

placeholder == Token(STR_PANIC, "Plus")

\* The pure function scan: [panicked, tokens].
RECURSIVE scan(_)
Chain(t, rest) ==
    IF rest.panicked THEN rest
    ELSE [panicked |-> FALSE, tokens |-> <<t>> \o rest.tokens]

Sub(res) ==
    IF res.panic THEN [panicked |-> TRUE, tokens |-> <<>>]
    ELSE IF res.empty THEN [panicked |-> FALSE, tokens |-> <<>>]
    ELSE Chain(res.t, scan(res.r))

scan(inp) ==
    LET c == skip_whitespace(inp)
    IN  IF c = <<>> THEN [panicked |-> FALSE, tokens |-> <<>>]
        ELSE LET f == Head(c)
                 r == Tail(c)
             IN  IF f \in 48..57 THEN Sub(scan_int(c))
                 ELSE IF f \in (97..122) \cup (65..90) THEN Sub(scan_id(c))
                 ELSE IF f \in DOMAIN SingleChar
                      THEN Chain(Token(<<f>>, SingleChar[f]), scan(r))
                 ELSE Chain(placeholder, scan(r))

(* ------------------------------- inputs -------------------------------- *)

\* Pieces the inputs are concatenated from: the reserved words and "void",
\* "inT", the letters x and N, the digit 7, the nine operator and
\* punctuation characters, space, tab, newline, carriage return, NBSP,
\* the fraction U+00BC, the letter U+00B5 and '#'.
Lexicon ==
    {STR_int, STR_main, STR_return, STR_void, <<105, 110, 84>>,
     <<120>>, <<78>>, <<55>>}
    \cup {<<c>> : c \in DOMAIN SingleChar}
    \cup {<<32>>, <<9>>, <<10>>, <<13>>, <<160>>}
    \cup {<<188>>, <<181>>, <<35>>}

RECURSIVE Inputs(_)
Inputs(n) ==
    IF n = 0 THEN {<<>>}
    ELSE LET prev == Inputs(n - 1)
         IN  prev \cup {a \o b : a \in prev, b \in Lexicon}

(* ---------------------------- state machine ---------------------------- *)

Init ==
    /\ input \in Inputs(MaxChunks)
    /\ cs = input
    /\ tokens = <<>>
    /\ pc = "scan"

\* [] => vec![]
ScanEmpty ==
    /\ pc = "scan"
    /\ skip_whitespace(cs) = <<>>
    /\ pc' = "done"
    /\ cs' = <<>>
    /\ UNCHANGED <<input, tokens>>

Apply(res) ==
    IF res.panic THEN /\ pc' = "panic"
                      /\ UNCHANGED <<input, cs, tokens>>
    ELSE IF res.empty THEN /\ pc' = "done"
                           /\ cs' = <<>>
                           /\ UNCHANGED <<input, tokens>>
    ELSE /\ tokens' = Append(tokens, res.t)
         /\ cs' = res.r
         /\ UNCHANGED <<input, pc>>

\* '0'..='9' => scan_int(cs)
ScanInt ==
    /\ pc = "scan"
    /\ LET c == skip_whitespace(cs)
       IN  /\ c # <<>>
           /\ Head(c) \in 48..57
           /\ Apply(scan_int(c))

\* 'a'..='z' | 'A'..='Z' => scan_id(cs), first character lower-case
ScanId ==
    /\ pc = "scan"
    /\ LET c == skip_whitespace(cs)
       IN  /\ c # <<>>
           /\ Head(c) \in 97..122
           /\ Apply(scan_id(c))

\* 'a'..='z' | 'A'..='Z' => scan_id(cs), first character upper-case:
\* scan_id reaches its todo!() arm.
ScanIdUpper ==
    /\ pc = "scan"
    /\ LET c == skip_whitespace(cs)
       IN  /\ c # <<>>
           /\ Head(c) \in 65..90
           /\ Apply(scan_id(c))

\* '+' | '-' | '*' | '/' | '(' | ')' | '{' | '}' | ';'
ScanSingle ==
    /\ pc = "scan"
    /\ LET c == skip_whitespace(cs)
       IN  /\ c # <<>>
           /\ Head(c) \in DOMAIN SingleChar
           /\ tokens' = Append(tokens, Token(<<Head(c)>>, SingleChar[Head(c)]))
           /\ cs' = Tail(c)
    /\ UNCHANGED <<input, pc>>

\* _ => Token { lexeme: "PANIC?", category: Plus }
ScanOther ==
    /\ pc = "scan"
    /\ LET c == skip_whitespace(cs)
       IN  /\ c # <<>>
           /\ Head(c) \notin (48..57) \cup (97..122) \cup (65..90)
                             \cup DOMAIN SingleChar
           /\ tokens' = Append(tokens, placeholder)
           /\ cs' = Tail(c)
    /\ UNCHANGED <<input, pc>>

Next ==
    \/ ScanEmpty
    \/ ScanInt
    \/ ScanId
    \/ ScanIdUpper
    \/ ScanSingle
    \/ ScanOther

Spec == Init /\ [][Next]_vars

\* The machine computes the function: what is chained so far, followed by
\* the pending call, is scan(input).
MachineAgrees ==
    /\ pc = "done" => scan(input) = [panicked |-> FALSE, tokens |-> tokens]
    /\ pc = "panic" => scan(input).panicked
    /\ pc = "scan" =>
         scan(input) = (IF scan(cs).panicked THEN scan(cs)
                        ELSE [panicked |-> FALSE,
                              tokens |-> tokens \o scan(cs).tokens])

(* ------------------- vocabulary of the specification ------------------- *)

\* Whitespace as the specification lists it: space, tab, newline, carriage
\* return.
SpecWs == {32, 9, 10, 13}

\* Not one of the characters scan skips as whitespace.
NotWhitespace(c) == ~is_whitespace(c)

\* '0'..'9'
DecimalDigits == 48..57

DecimalDigit(c) == c \in DecimalDigits

\* 'a'..'z', 'A'..'Z'
AsciiLetters == (65..90) \cup (97..122)

AsciiLetter(c) == c \in AsciiLetters

AsciiAlnums == AsciiLetters \cup DecimalDigits

AsciiAlnum(c) == c \in AsciiAlnums

\* The characters that begin a lexeme of the grammar.
Recognized(c) == DecimalDigit(c) \/ AsciiLetter(c) \/ c \in DOMAIN SingleChar

\* The input from its first non-whitespace character on.
SpecSkip(s) == skip_while(SpecWs, s)

WordCategories ==
    {"Identifier", "KeywordTypeInt", "KeywordMain", "KeywordVoid", "KeywordReturn"}

SingleCategories == {SingleChar[c] : c \in DOMAIN SingleChar}

Reserved == {STR_int, STR_main, STR_return}

\* Whitespace strings of length 1..MaxWs.
WsStrings == UNION {[1..k -> SpecWs] : k \in 1..MaxWs}

\* s with w inserted after its first p characters.
Insert(s, p, w) == SubSeq(s, 1, p) \o w \o SubSeq(s, p + 1, Len(s))

\* p is strictly inside a run of digits or a run of letters of s.
InsideRun(s, p) ==
    /\ p \in 1..(Len(s) - 1)
    /\ \/ DecimalDigit(s[p]) /\ DecimalDigit(s[p + 1])
       \/ AsciiLetter(s[p]) /\ AsciiLetter(s[p + 1])

RECURSIVE Concat(_)
Concat(ts) == IF ts = <<>> THEN <<>> ELSE Head(ts).lexeme \o Concat(Tail(ts))

IsStrictSuffix(a, b) ==
    /\ Len(a) < Len(b)
    /\ a = SubSeq(b, Len(b) - Len(a) + 1, Len(b))

Ok(ts) == [panicked |-> FALSE, tokens |-> ts]

(* ------------------------------- claims -------------------------------- *)

\* C1: when a call of scan reaches, after skipping whitespace, a character
\* that is not a decimal digit, not an ASCII letter and not one of
\* + - * / ( ) { } ;, scan fails: it neither goes on scanning nor returns,
\* and it emits no token for that character.
C1_UnrecognizedCharacterFails ==
    [][(/\ pc = "scan"
        /\ skip_whitespace(cs) # <<>>
        /\ ~Recognized(Head(skip_whitespace(cs))))
       => (pc' \notin {"scan", "done"} /\ tokens' = tokens)]_vars

\* C2: whitespace is invisible: when scan has returned the tokens of input,
\* inserting any whitespace string at any position that is not strictly
\* inside a run of digits or a run of letters (start and end included)
\* gives an input for which scan returns exactly the same tokens.
C2_WhitespaceInvisible ==
    pc = "done" =>
        \A p \in 0..Len(input) : \A w \in WsStrings :
            ~InsideRun(input, p) => scan(Insert(input, p, w)) = Ok(tokens)

\* C3: maximal munch for integer literals: when the first non-whitespace
\* character of the input is a decimal digit, the first token returned is
\* LiteralInt with exactly the maximal run of '0'..'9' starting there as its
\* lexeme, and the rest of the tokens are those of the input after that run.
C3_MaximalMunchInt ==
    LET c == SpecSkip(input)
        run == take_while(DecimalDigits, c)
        rest == skip_while(DecimalDigits, c)
    IN  (pc = "done" /\ c # <<>> /\ DecimalDigit(Head(c))) =>
            /\ tokens # <<>>
            /\ Head(tokens) = Token(run, "LiteralInt")
            /\ scan(rest) = Ok(Tail(tokens))

\* C4: when the first non-whitespace character of the input is an ASCII
\* letter, lower-case or upper-case, scan returns normally and its first
\* token is a keyword or Identifier token whose lexeme starts at that letter
\* and contains the whole maximal run of ASCII letters beginning there.
C4_LetterRunOneToken ==
    LET c == SpecSkip(input)
        run == take_while(AsciiLetters, c)
    IN  (pc \in {"done", "panic"} /\ c # <<>> /\ AsciiLetter(Head(c))) =>
            /\ pc = "done"
            /\ tokens # <<>>
            /\ Head(tokens).category \in WordCategories
            /\ Len(Head(tokens).lexeme) >= Len(run)
            /\ SubSeq(Head(tokens).lexeme, 1, Len(run)) = run

\* A token whose lexeme is a run of letters.
FromLetterRun(t) ==
    /\ t.lexeme # <<>>
    /\ \A k \in 1..Len(t.lexeme) : is_alphabetic(t.lexeme[k])

\* C5: keyword/identifier partition: every token has category
\* KeywordTypeInt exactly when its lexeme is "int", KeywordMain exactly when
\* it is "main", KeywordReturn exactly when it is "return"; a token made of
\* a letter run with any other lexeme is an Identifier; no Identifier has a
\* reserved lexeme, and no KeywordVoid token is ever produced.
C5_KeywordPartition ==
    \A i \in 1..Len(tokens) :
        LET t == tokens[i]
        IN  /\ (t.category = "KeywordTypeInt") <=> (t.lexeme = STR_int)
            /\ (t.category = "KeywordMain") <=> (t.lexeme = STR_main)
            /\ (t.category = "KeywordReturn") <=> (t.lexeme = STR_return)
            /\ (FromLetterRun(t) /\ t.lexeme \notin Reserved)
                   => t.category = "Identifier"
            /\ t.category = "Identifier"
                   => (FromLetterRun(t) /\ t.lexeme \notin Reserved)
            /\ t.category # "KeywordVoid"

\* scan has returned with "int" resolved to KeywordTypeInt and "void" left
\* an Identifier in the same token sequence.
C5_Witness ==
    /\ pc = "done"
    /\ \E i, j \in 1..Len(tokens) :
         /\ tokens[i] = Token(STR_int, "KeywordTypeInt")
         /\ tokens[j] = Token(STR_void, "Identifier")

\* C6: fixed single-character mapping, both directions: in the tokens scan
\* returns, every occurrence of one of + - * / ( ) { } ; in the input has
\* exactly one token with that character as lexeme and the category of the
\* table, and every token with one of the nine categories has as lexeme the
\* single character mapped to its category.
C6_SingleCharMapping ==
    pc = "done" =>
        /\ \A c \in DOMAIN SingleChar :
             Cardinality({i \in 1..Len(input) : input[i] = c})
               = Cardinality({j \in 1..Len(tokens) :
                                tokens[j] = Token(<<c>>, SingleChar[c])})
        /\ \A j \in 1..Len(tokens) :
             tokens[j].category \in SingleCategories =>
                 \E c \in DOMAIN SingleChar :
                     tokens[j] = Token(<<c>>, SingleChar[c])

\* C7: round trip: when scan returns, the lexemes of its tokens, in order,
\* concatenate to the input with its whitespace characters removed.
C7_RoundTrip ==
    pc = "done" => Concat(tokens) = SelectSeq(input, NotWhitespace)

\* C8: identifiers follow [a-zA-Z][a-zA-Z0-9]*: when the input starts
\* (after whitespace) with an ASCII letter, the first token returned covers
\* the whole run of ASCII letters and decimal digits beginning there, and
\* every Identifier lexeme returned matches [a-zA-Z][a-zA-Z0-9]*.
C8_IdentifierGrammar ==
    LET c == SpecSkip(input)
    IN  pc = "done" =>
            /\ (c # <<>> /\ AsciiLetter(Head(c))) =>
                   /\ tokens # <<>>
                   /\ Head(tokens).lexeme = take_while(AsciiAlnums, c)
            /\ \A i \in 1..Len(tokens) :
                   tokens[i].category = "Identifier" =>
                       /\ tokens[i].lexeme # <<>>
                       /\ AsciiLetter(Head(tokens[i].lexeme))
                       /\ \A k \in 1..Len(tokens[i].lexeme) :
                              AsciiAlnum(tokens[i].lexeme[k])

\* The number of characters of s that scan does not skip as whitespace.
NonWsCount(s) == Cardinality({i \in 1..Len(s) : ~is_whitespace(s[i])})

\* C9: every call of scan whose argument is not empty or all whitespace
\* emits exactly one token and passes a strict suffix of its argument to the
\* next call; scan stops exactly when the remainder is empty or all
\* whitespace; the tokens never outnumber the non-whitespace characters of
\* the input.
C9_StepsAndTermination ==
    /\ [][(pc = "scan" /\ skip_whitespace(cs) # <<>>) =>
            /\ pc' = "scan"
            /\ Len(tokens') = Len(tokens) + 1
            /\ IsStrictSuffix(cs', cs)]_vars
    /\ [][(pc = "scan" /\ skip_whitespace(cs) = <<>>) => pc' = "done"]_vars
    /\ [](pc # "scan" => skip_whitespace(cs) = <<>>)
    /\ [](Len(tokens) <= NonWsCount(input))

\* C10: skip_whitespace returns the suffix of its argument that starts at
\* the first character that is not a space, tab, newline or carriage return
\* (empty if there is none): it removes exactly those leading characters.
C10_SkipWhitespaceExact ==
    skip_whitespace(cs) = SpecSkip(cs)

====
